---- MODULE Spec2Model ----
(***************************************************************************)
(* Model of the regex-based HTML sanitizer (src/src/sanitizer.ts).         *)
(*                                                                         *)
(* Text.  An HTML string is a sequence of lexemes.  A lexeme is a TLA+     *)
(* string and stands for exactly the characters written in it: the         *)
(* punctuation lexemes of NonWord are single characters, every other       *)
(* lexeme is a non-empty run of \w characters (a word).  The string a      *)
(* sequence denotes is the concatenation of its lexemes.  The alphabets    *)
(* the inputs are drawn from hold no word that is a prefix or a suffix of  *)
(* another, so a regular expression matches the denoted characters exactly *)
(* where the lexeme-level matcher below matches the sequence.              *)
(*                                                                         *)
(* Every regular expression of the source is an operator XxxEnd(s, i, ..): *)
(* the index just after the match that starts at position i of s, or 0     *)
(* when the expression does not match at i.  String.prototype.replace with *)
(* the g flag is ReplaceAll.                                               *)
(***************************************************************************)
EXTENDS Naturals, Sequences, FiniteSets, TLC

VARIABLES config, html, name, result, answer, op

\* given: the configuration the engine was constructed from;
\* kind: typeof the argument html ("null" for null); raised: the call threw;
\* metadata, validation: what the NodeHTMLProcessor methods returned;
\* content: ShadowRootProcessor.content; innerHTML: element.innerHTML;
\* lastWrite: the last call that assigned content; calls: calls made so far
VARIABLES given, kind, raised, metadata, validation, content, innerHTML,
          lastWrite, calls

vars == <<config, html, name, result, answer, op, given, kind, raised, metadata,
          validation, content, innerHTML, lastWrite, calls>>

-----------------------------------------------------------------------------
(* Lexemes and character classes *)

LT == "<"
GT == ">"
SL == "/"
EQ == "="
SQ == "'"
DQ == "\""
SP == " "
BANG == "!"
DASH == "-"
COLON == ":"
HASH == "#"
DOT == "."

NonWord == {LT, GT, SL, EQ, SQ, DQ, SP, BANG, DASH, COLON, HASH, DOT, "[", "]"}

\* \w+ : a lexeme that is not punctuation is a run of word characters
IsWord(x) == x \notin NonWord

\* \s : the whitespace lexeme
IsSpace(x) == x = SP

UpperLower ==
  [SCRIPT |-> "script", STYLE |-> "style", DIV |-> "div", B |-> "b",
   ONCLICK |-> "onclick", ONKEYUP |-> "onkeyup", HREF |-> "href", SRC |-> "src",
   JAVASCRIPT |-> "javascript", DATA |-> "data", HTTP |-> "http",
   DOCTYPE |-> "doctype"]

\* String.prototype.toLowerCase on a lexeme
ToLowerCase(x) == IF x \in DOMAIN UpperLower THEN UpperLower[x] ELSE x

\* a literal word of a regular expression with the i flag against one lexeme
EqI(x, w) == ToLowerCase(x) = ToLowerCase(w)

Range(f) == {f[i] : i \in DOMAIN f}

\* Array.prototype.includes
Includes(list, x) == \E i \in DOMAIN list : list[i] = x

-----------------------------------------------------------------------------
(* Regular-expression plumbing *)

\* least index j >= i with s[j] = c, or 0
FirstAt(s, i, c) ==
  IF \E j \in i..Len(s) : s[j] = c
  THEN CHOOSE j \in i..Len(s) : s[j] = c /\ \A k \in i..(j - 1) : s[k] # c
  ELSE 0

\* \s* from i: the index of the first non-space at or after i (Len(s)+1 at the end)
SkipSpaces(s, i) ==
  CHOOSE j \in i..(Len(s) + 1) :
    /\ \A k \in i..(j - 1) : IsSpace(s[k])
    /\ (j = Len(s) + 1 \/ ~IsSpace(s[j]))

Is(s, i, c) == i <= Len(s) /\ s[i] = c

\* \b after the word lexeme s[i-1]: the next character is not a word character
BoundaryAt(s, i) == i > Len(s) \/ ~IsWord(s[i])

RECURSIVE Scan(_, _, _, _)
Scan(s, m, r, i) ==
  IF i > Len(s) THEN <<>>
  ELSE IF m[i] # 0 THEN r[i] \o Scan(s, m, r, m[i])
  ELSE <<s[i]>> \o Scan(s, m, r, i + 1)

\* s.replace(/re/g, R): leftmost non-overlapping matches, left to right
ReplaceAll(s, M(_, _), R(_, _, _)) ==
  LET m == [i \in 1..Len(s) |-> M(s, i)]
      r == [i \in 1..Len(s) |-> IF m[i] = 0 THEN <<>> ELSE R(s, i, m[i])]
  IN  Scan(s, m, r, 1)

Empty(s, i, e) == <<>>

\* regex.test(s)
Test(s, M(_, _)) == \E i \in 1..Len(s) : M(s, i) # 0

\* String.prototype.trim
Trim(s) ==
  IF \A k \in 1..Len(s) : IsSpace(s[k]) THEN <<>>
  ELSE LET a == CHOOSE j \in 1..Len(s) :
                  ~IsSpace(s[j]) /\ \A k \in 1..(j - 1) : IsSpace(s[k])
           b == CHOOSE j \in 1..Len(s) :
                  ~IsSpace(s[j]) /\ \A k \in (j + 1)..Len(s) : IsSpace(s[k])
       IN  SubSeq(s, a, b)

-----------------------------------------------------------------------------
(* The regular expressions of sanitize and removeUnsafe *)

\* /<!DOCTYPE[^>]*>/gi
DoctypeEnd(s, i) ==
  IF Is(s, i, LT) /\ Is(s, i + 1, BANG) /\ i + 2 <= Len(s) /\ EqI(s[i + 2], "DOCTYPE")
  THEN LET g == FirstAt(s, i + 3, GT) IN IF g = 0 THEN 0 ELSE g + 1
  ELSE 0

\* index k >= i where "-->" starts, or 0
CommentCloseAt(s, i) ==
  IF \E k \in i..Len(s) : Is(s, k, DASH) /\ Is(s, k + 1, DASH) /\ Is(s, k + 2, GT)
  THEN CHOOSE k \in i..Len(s) :
         /\ Is(s, k, DASH) /\ Is(s, k + 1, DASH) /\ Is(s, k + 2, GT)
         /\ \A j \in i..(k - 1) : ~(Is(s, j, DASH) /\ Is(s, j + 1, DASH) /\ Is(s, j + 2, GT))
  ELSE 0

\* /<!--[\s\S]*?-->/g
CommentEnd(s, i) ==
  IF Is(s, i, LT) /\ Is(s, i + 1, BANG) /\ Is(s, i + 2, DASH) /\ Is(s, i + 3, DASH)
  THEN LET k == CommentCloseAt(s, i + 4) IN IF k = 0 THEN 0 ELSE k + 3
  ELSE 0

\* <\/tag> at k
IsCloseTag(s, k, tag) ==
  /\ Is(s, k, LT) /\ Is(s, k + 1, SL)
  /\ k + 2 <= Len(s) /\ EqI(s[k + 2], tag)
  /\ Is(s, k + 3, GT)

\* <tag\b[^>]*> at i: the index of its closing ">", or 0
OpenTagGt(s, i, tag) ==
  IF Is(s, i, LT) /\ i + 1 <= Len(s) /\ EqI(s[i + 1], tag) /\ BoundaryAt(s, i + 2)
  THEN FirstAt(s, i + 2, GT)
  ELSE 0

\* new RegExp(`<${tag}\\b[^>]*>[\\s\\S]*?<\\/${tag}>`, "gi")
ElementEnd(s, i, tag) ==
  LET g == OpenTagGt(s, i, tag) IN
  IF g = 0 THEN 0
  ELSE IF \E k \in (g + 1)..Len(s) : IsCloseTag(s, k, tag)
       THEN (CHOOSE k \in (g + 1)..Len(s) :
               /\ IsCloseTag(s, k, tag)
               /\ \A j \in (g + 1)..(k - 1) : ~IsCloseTag(s, j, tag)) + 4
       ELSE 0

\* new RegExp(`<${tag}\\b[^>]*\\/?>`, "gi")
SelfClosingEnd(s, i, tag) ==
  LET g == OpenTagGt(s, i, tag) IN IF g = 0 THEN 0 ELSE g + 1

\* new RegExp(`\\s+${attr}\\s*=\\s*Q[^Q]*Q`, "gi") for the quote character q
QuotedAttrEnd(s, i, attr, q) ==
  IF i <= Len(s) /\ IsSpace(s[i])
  THEN LET a == SkipSpaces(s, i) IN
       IF a <= Len(s) /\ EqI(s[a], attr)
       THEN LET e == SkipSpaces(s, a + 1) IN
            IF Is(s, e, EQ)
            THEN LET o == SkipSpaces(s, e + 1) IN
                 IF Is(s, o, q)
                 THEN LET c == FirstAt(s, o + 1, q) IN IF c = 0 THEN 0 ELSE c + 1
                 ELSE 0
            ELSE 0
       ELSE 0
  ELSE 0

IsUrlAttr(x) == EqI(x, "href") \/ EqI(x, "src")

\* (href|src)\s*=\s* at i: the index just after it, or 0
UrlAttrHead(s, i) ==
  IF i <= Len(s) /\ IsUrlAttr(s[i])
  THEN LET e == SkipSpaces(s, i + 1) IN
       IF Is(s, e, EQ) THEN SkipSpaces(s, e + 1) ELSE 0
  ELSE 0

\* /(href|src)\s*=\s*["']scheme:[^"']*["']/gi
UnsafeUrlEnd(s, i, scheme) ==
  LET o == UrlAttrHead(s, i) IN
  IF o # 0 /\ (Is(s, o, DQ) \/ Is(s, o, SQ))
       /\ o + 1 <= Len(s) /\ EqI(s[o + 1], scheme) /\ Is(s, o + 2, COLON)
  THEN IF \E c \in (o + 3)..Len(s) : s[c] \in {DQ, SQ}
       THEN (CHOOSE c \in (o + 3)..Len(s) :
               s[c] \in {DQ, SQ} /\ \A k \in (o + 3)..(c - 1) : s[k] \notin {DQ, SQ}) + 1
       ELSE 0
  ELSE 0

\* '$1="#"'
HashAttr(s, i, e) == <<s[i], EQ, DQ, HASH, DQ>>

-----------------------------------------------------------------------------
(* Sanitizer.removeUnsafe *)

unsafeElements == <<"script", "style", "iframe", "object", "embed">>

unsafeAttributes ==
  <<"onclick", "onload", "onerror", "onmouseover", "onmouseout", "onfocus",
    "onblur", "onchange", "onsubmit", "onkeydown", "onkeyup">>

\* the body of the forEach over element names
RemoveElement(s, tag) ==
  LET a == ReplaceAll(s, LAMBDA t, k : ElementEnd(t, k, tag), Empty)
  IN  ReplaceAll(a, LAMBDA t, k : SelfClosingEnd(t, k, tag), Empty)

\* the body of the forEach over attribute names
RemoveAttribute(s, attr) ==
  LET a == ReplaceAll(s, LAMBDA t, k : QuotedAttrEnd(t, k, attr, SQ), Empty)
  IN  ReplaceAll(a, LAMBDA t, k : QuotedAttrEnd(t, k, attr, DQ), Empty)

\* forEach over the names, in list order (nothing matches in the empty string;
\* comparing s first also makes TLC finish one pass before it starts the next)
RECURSIVE RemoveElements(_, _)
RemoveElements(s, tags) ==
  IF s = <<>> \/ tags = <<>> THEN s
  ELSE RemoveElements(RemoveElement(s, Head(tags)), Tail(tags))

RECURSIVE RemoveAttributes(_, _)
RemoveAttributes(s, attrs) ==
  IF s = <<>> \/ attrs = <<>> THEN s
  ELSE RemoveAttributes(RemoveAttribute(s, Head(attrs)), Tail(attrs))

removeUnsafe(h) ==
  LET noElements == RemoveElements(h, unsafeElements)
      noAttributes == RemoveAttributes(noElements, unsafeAttributes)
      noScript ==
        ReplaceAll(noAttributes, LAMBDA t, k : UnsafeUrlEnd(t, k, "javascript"), HashAttr)
      noData == ReplaceAll(noScript, LAMBDA t, k : UnsafeUrlEnd(t, k, "data"), HashAttr)
  IN  Trim(noData)

-----------------------------------------------------------------------------
(* new URL(url).protocol, as sanitizeUrls uses it *)

RECURSIVE Join(_)
Join(ws) == IF ws = <<>> THEN "" ELSE ToLowerCase(Head(ws)) \o Join(Tail(ws))

SpecialSchemes == {"http", "https", "ftp", "ws", "wss"}

\* code points that end the authority of a URL
EndsAuthority(x) == x \in {SL, HASH}

\* forbidden host code points among the lexemes
ForbiddenInHost(x) == x \in {SP, LT, GT, HASH, SL, COLON}

\* index of the first lexeme at or after i that satisfies P, or Len(s)+1
FirstThat(s, i, P(_)) ==
  CHOOSE j \in i..(Len(s) + 1) :
    /\ \A k \in i..(j - 1) : ~P(s[k])
    /\ (j = Len(s) + 1 \/ P(s[j]))

\* host[:port] of an authority; the port of a lexeme string holds no digit
AuthorityOk(a, mayBeEmpty) ==
  LET c == FirstThat(a, 1, LAMBDA x : x = COLON)
      host == SubSeq(a, 1, c - 1)
      port == SubSeq(a, c + 1, Len(a))
  IN  /\ mayBeEmpty \/ host # <<>>
      /\ \A k \in 1..Len(host) : ~ForbiddenInHost(host[k])
      /\ port = <<>>

\* the protocol of new URL(v), or "" when the constructor throws
URLProtocol(v) ==
  LET t == Trim(v)
      j == FirstThat(t, 1, LAMBDA x : ~(IsWord(x) \/ x \in {DASH, DOT}))
  IN  IF t = <<>> \/ ~IsWord(t[1]) \/ ~Is(t, j, COLON) THEN ""
      ELSE LET scheme == Join(SubSeq(t, 1, j - 1))
               rest == SubSeq(t, j + 1, Len(t))
               b == FirstThat(rest, 1, LAMBDA x : x # SL)
               e == FirstThat(rest, b, EndsAuthority)
               authority == SubSeq(rest, b, e - 1)
           IN  IF scheme \in SpecialSchemes
               THEN IF AuthorityOk(authority, FALSE) THEN scheme \o ":" ELSE ""
               ELSE IF b = 3 /\ ~AuthorityOk(authority, TRUE) THEN ""
               ELSE scheme \o ":"

-----------------------------------------------------------------------------
(* Sanitizer: configuration *)

DEFAULT_SANITIZER_CONFIG ==
  [elements |->
     <<"p", "br", "strong", "em", "u", "b", "i", "span", "div", "h1", "h2", "h3",
       "h4", "h5", "h6", "ul", "ol", "li", "blockquote", "pre", "code", "a", "img",
       "table", "thead", "tbody", "tr", "tbody", "tr", "th", "td">>,
   removeElements |->
     <<"script", "style", "iframe", "object", "embed", "form", "input",
       "textarea", "button", "select", "option">>,
   allowedElements |->
     <<"p", "br", "strong", "em", "u", "b", "i", "span", "div", "h1", "h2", "h3",
       "h4", "h5", "h6", "ul", "ol", "li", "blockquote", "pre", "code", "a", "img",
       "table", "thead", "tbody", "tr", "th", "td">>,
   disallowedElements |->
     <<"script", "style", "iframe", "object", "embed", "form", "input",
       "textarea", "button", "select", "option">>,
   allowedAttributes |->
     <<"href", "src", "alt", "title", "class", "id", "style", "width", "height",
       "colspan", "rowspan", "target">>,
   disallowedAttributes |->
     <<"onclick", "onload", "onerror", "onmouseover", "onmouseout", "onfocus",
       "onblur", "onchange", "onsubmit">>,
   allowedProtocols |-> <<"http:", "https:", "mailto:", "tel:">>,
   allowDataUrls |-> FALSE,
   stripComments |-> TRUE,
   stripDoctype |-> TRUE]

\* a field of a configuration object is set
Has(c, f) == f \in DOMAIN c

\* { ...a, ...b }
Spread(a, b) ==
  [f \in DOMAIN a \cup DOMAIN b |-> IF f \in DOMAIN b THEN b[f] ELSE a[f]]

\* c with field f assigned v
Assign(c, f, v) == [g \in DOMAIN c \cup {f} |-> IF g = f THEN v ELSE c[g]]

normalizeConfig(c) ==
  LET a == IF Has(c, "elements") THEN Assign(c, "allowedElements", c.elements) ELSE c
  IN  IF Has(a, "removeElements")
      THEN Assign(a, "disallowedElements", a.removeElements)
      ELSE a

\* mutant: the caller's blocked list is appended to the default list
Sanitizer_Extends(cfg) ==
  LET n == normalizeConfig(DEFAULT_SANITIZER_CONFIG)
      m == Spread(n, cfg)
      d == IF Has(cfg, "disallowedElements")
           THEN Assign(m, "disallowedElements", n.disallowedElements \o cfg.disallowedElements)
           ELSE m
  IN  IF Has(cfg, "removeElements")
      THEN Assign(d, "disallowedElements", n.disallowedElements \o cfg.removeElements)
      ELSE d

\* mutant: the legacy disallowedElements is assigned after removeElements
Sanitizer_LegacyLast(cfg) ==
  LET n == normalizeConfig(DEFAULT_SANITIZER_CONFIG)
      m == Spread(n, cfg)
      d == IF Has(cfg, "removeElements")
           THEN Assign(m, "disallowedElements", cfg.removeElements)
           ELSE m
  IN  IF Has(cfg, "disallowedElements")
      THEN Assign(d, "disallowedElements", cfg.disallowedElements)
      ELSE d

\* new Sanitizer(cfg): the value of this.config after the constructor
Sanitizer(cfg) ==
  LET n == normalizeConfig(DEFAULT_SANITIZER_CONFIG)
      m == Spread(n, cfg)
      d == IF Has(cfg, "disallowedElements")
           THEN Assign(m, "disallowedElements", cfg.disallowedElements)
           ELSE m
  IN  IF Has(cfg, "removeElements")
      THEN Assign(d, "disallowedElements", cfg.removeElements)
      ELSE d

\* new Sanitizer(): the parameter defaults to DEFAULT_SANITIZER_CONFIG
DefaultSanitizer == Sanitizer(DEFAULT_SANITIZER_CONFIG)

-----------------------------------------------------------------------------
(* Sanitizer.sanitizeUrls *)

\* /(href|src)\s*=\s*Q([^Q]+)Q/gi for the quote character q
QuotedUrlEnd(s, i, q) ==
  LET o == UrlAttrHead(s, i) IN
  IF o # 0 /\ Is(s, o, q)
  THEN LET c == FirstAt(s, o + 1, q) IN IF c = 0 \/ c = o + 1 THEN 0 ELSE c + 1
  ELSE 0

\* the replacement callback (match, attr, url) => ...
UrlReplacement(s, i, e, c) ==
  LET o == UrlAttrHead(s, i)
      url == SubSeq(s, o + 1, e - 2)
      protocol == URLProtocol(url)
  IN  IF protocol = "" THEN HashAttr(s, i, e)
      ELSE IF Has(c, "allowedProtocols") /\ ~Includes(c.allowedProtocols, protocol)
           THEN HashAttr(s, i, e)
      ELSE IF protocol = "data:" /\ ~c.allowDataUrls THEN HashAttr(s, i, e)
      ELSE SubSeq(s, i, e - 1)

sanitizeUrls(h, c) ==
  LET a == ReplaceAll(h, LAMBDA t, k : QuotedUrlEnd(t, k, SQ),
                      LAMBDA t, k, z : UrlReplacement(t, k, z, c))
  IN  ReplaceAll(a, LAMBDA t, k : QuotedUrlEnd(t, k, DQ),
                 LAMBDA t, k, z : UrlReplacement(t, k, z, c))

-----------------------------------------------------------------------------
(* Sanitizer.cleanupEmptyTags *)

\* /<(\w+)[^>]*>\s*<\/\1>/gi (minSpaces = 0) and /<(\w+)[^>]*>\s+<\/\1>/gi
\* (minSpaces = 1).  \1 is a non-empty prefix of the word after "<": \w+ gives
\* back what [^>]* can take.
EmptyTagEnd(s, i, minSpaces) ==
  IF Is(s, i, LT) /\ i + 1 <= Len(s) /\ IsWord(s[i + 1])
  THEN LET g == FirstAt(s, i + 2, GT) IN
       IF g = 0 THEN 0
       ELSE LET p == SkipSpaces(s, g + 1) IN
            IF p - (g + 1) >= minSpaces /\ Is(s, p, LT) /\ Is(s, p + 1, SL)
            THEN LET z == FirstAt(s, p + 2, GT)
                     n == z - (p + 2)
                 IN  IF z # 0 /\ n >= 1
                          /\ \A k \in 0..(n - 1) :
                               /\ i + 1 + k < g
                               /\ IsWord(s[i + 1 + k])
                               /\ EqI(s[p + 2 + k], s[i + 1 + k])
                     THEN z + 1
                     ELSE 0
            ELSE 0
  ELSE 0

cleanupEmptyTags(h) ==
  LET a == ReplaceAll(h, LAMBDA t, k : EmptyTagEnd(t, k, 0), Empty)
  IN  ReplaceAll(a, LAMBDA t, k : EmptyTagEnd(t, k, 1), Empty)

-----------------------------------------------------------------------------
(* Sanitizer.sanitize, isElementAllowed, isAttributeAllowed *)

\* mutant: the element b is removed as well when allowedElements does not name it
sanitize_Whitelisted(h, c) ==
  IF h = <<>> THEN <<>>
  ELSE
    LET noDoctype == IF c.stripDoctype THEN ReplaceAll(h, DoctypeEnd, Empty) ELSE h
        noComments ==
          IF c.stripComments THEN ReplaceAll(noDoctype, CommentEnd, Empty) ELSE noDoctype
        blocked == IF Has(c, "disallowedElements") THEN c.disallowedElements ELSE <<>>
        unlisted ==
          IF Has(c, "allowedElements") /\ ~Includes(c.allowedElements, "b")
          THEN <<"b">> ELSE <<>>
        noElements == RemoveElements(noComments, blocked \o unlisted)
        noAttributes ==
          IF Has(c, "disallowedAttributes")
          THEN RemoveAttributes(noElements, c.disallowedAttributes) ELSE noElements
        safeUrls == sanitizeUrls(noAttributes, c)
        cleaned == cleanupEmptyTags(safeUrls)
    IN  Trim(cleaned)

sanitize(h, c) ==
  IF h = <<>> THEN <<>>
  ELSE
    LET noDoctype == IF c.stripDoctype THEN ReplaceAll(h, DoctypeEnd, Empty) ELSE h
        noComments ==
          IF c.stripComments THEN ReplaceAll(noDoctype, CommentEnd, Empty) ELSE noDoctype
        noElements ==
          IF Has(c, "disallowedElements")
          THEN RemoveElements(noComments, c.disallowedElements) ELSE noComments
        noAttributes ==
          IF Has(c, "disallowedAttributes")
          THEN RemoveAttributes(noElements, c.disallowedAttributes) ELSE noElements
        safeUrls == sanitizeUrls(noAttributes, c)
        cleaned == cleanupEmptyTags(safeUrls)
    IN  Trim(cleaned)

isElementAllowed(tagName, c) ==
  IF Has(c, "disallowedElements") /\ Includes(c.disallowedElements, ToLowerCase(tagName))
  THEN FALSE
  ELSE IF Has(c, "allowedElements")
       THEN Includes(c.allowedElements, ToLowerCase(tagName))
       ELSE TRUE

isAttributeAllowed(attributeName, c) ==
  IF Has(c, "disallowedAttributes")
       /\ Includes(c.disallowedAttributes, ToLowerCase(attributeName))
  THEN FALSE
  ELSE IF Has(c, "allowedAttributes")
       THEN Includes(c.allowedAttributes, ToLowerCase(attributeName))
       ELSE TRUE

-----------------------------------------------------------------------------
(* NodeHTMLProcessor (node.ts): removal metadata *)

\* the number of characters of the first n lexemes of s
RECURSIVE CharsBefore(_, _)
CharsBefore(s, n) == IF n = 0 THEN 0 ELSE CharsBefore(s, n - 1) + Len(s[n])

\* new RegExp(`<\/?${tag}[^>]*>`, "gi") at i: no \b after the name
TagPatternEnd(s, i, tag) ==
  IF Is(s, i, LT)
  THEN LET n == IF Is(s, i + 1, SL) THEN i + 2 ELSE i + 1 IN
       IF n <= Len(s) /\ EqI(s[n], tag)
       THEN LET g == FirstAt(s, n + 1, GT) IN IF g = 0 THEN 0 ELSE g + 1
       ELSE 0
  ELSE 0

\* new RegExp(`\s+${attr}\s*=\s*["'][^"']*["']`, "gi") at i
AttrPatternEnd(s, i, attr) ==
  IF Is(s, i, SP)
  THEN LET n == SkipSpaces(s, i) IN
       IF n <= Len(s) /\ EqI(s[n], attr)
       THEN LET e == SkipSpaces(s, n + 1)
                o == SkipSpaces(s, e + 1)
            IN  IF Is(s, e, EQ) /\ o <= Len(s) /\ s[o] \in {SQ, DQ}
                     /\ \E z \in (o + 1)..Len(s) : s[z] \in {SQ, DQ}
                THEN 1 + CHOOSE z \in (o + 1)..Len(s) :
                           s[z] \in {SQ, DQ} /\ \A k \in (o + 1)..(z - 1) : s[k] \notin {SQ, DQ}
                ELSE 0
       ELSE 0
  ELSE 0

\* regex.test(s) of a regex with the g flag whose lastIndex is from: the search
\* starts at character from; the new lastIndex is the end of the match, or 0
TestFrom(s, m, from) ==
  LET starts == {i \in 1..Len(s) : m[i] # 0 /\ CharsBefore(s, i - 1) >= from} IN
    IF starts = {}
    THEN [found |-> FALSE, lastIndex |-> 0]
    ELSE LET i == CHOOSE x \in starts : \A y \in starts : x <= y
         IN  [found |-> TRUE, lastIndex |-> CharsBefore(s, m[i] - 1)]

\* regex.test(original) && !regex.test(sanitized) on one regex object
TestedAway(original, mo, sanitized, ms) ==
  LET first == TestFrom(original, mo, 0) IN
    first.found /\ ~TestFrom(sanitized, ms, first.lastIndex).found

\* removed.push(x) for the members of list that are in keep, in list order
RECURSIVE Pushed(_, _)
Pushed(list, keep) ==
  IF list = <<>> THEN <<>>
  ELSE (IF Head(list) \in keep THEN <<Head(list)>> ELSE <<>>) \o Pushed(Tail(list), keep)

extractRemovedElements(original, sanitized, c) ==
  IF Has(c, "disallowedElements")
  THEN Pushed(c.disallowedElements,
         {tag \in Range(c.disallowedElements) :
            TestedAway(original, [i \in 1..Len(original) |-> TagPatternEnd(original, i, tag)],
                       sanitized, [i \in 1..Len(sanitized) |-> TagPatternEnd(sanitized, i, tag)])})
  ELSE <<>>

extractRemovedAttributes(original, sanitized, c) ==
  IF Has(c, "disallowedAttributes")
  THEN Pushed(c.disallowedAttributes,
         {attr \in Range(c.disallowedAttributes) :
            TestedAway(original, [i \in 1..Len(original) |-> AttrPatternEnd(original, i, attr)],
                       sanitized, [i \in 1..Len(sanitized) |-> AttrPatternEnd(sanitized, i, attr)])})
  ELSE <<>>

\* String(v) of a value that is not a string, as regex.test and regex.exec
\* read it: "null", "undefined", "0", "[object Object]"
LB == "["
RB == "]"

JSToString(k) ==
  CASE k = "null" -> <<"null">>
    [] k = "undefined" -> <<"undefined">>
    [] k = "number" -> <<"0">>
    [] k = "object" -> <<LB, "object", SP, "Object", RB>>

\* the characters a regex reads in the argument (k = typeof, h = the string)
Subject(k, h) == IF k = "string" THEN h ELSE JSToString(k)

\* processHTMLWithMetadata(html).  The set {sanitize(html)} binds the sanitized
\* string once, as the const sanitizedHTML of the source does.
processHTMLWithMetadata(k, h, c) ==
  LET originalHTML == Subject(k, h)
      Report(sanitizedHTML) ==
        [returned |-> TRUE,
         sanitizedHTML |-> sanitizedHTML,
         wasModified |-> (k # "string" \/ sanitizedHTML # h),
         removedElements |-> extractRemovedElements(originalHTML, sanitizedHTML, c),
         removedAttributes |-> extractRemovedAttributes(originalHTML, sanitizedHTML, c)]
  IN  CHOOSE m \in {Report(s) : s \in {IF k = "string" THEN sanitize(h, c) ELSE <<>>}} : TRUE

-----------------------------------------------------------------------------
(* NodeHTMLProcessor.validateHTMLStructure *)

selfClosingTags ==
  <<"area", "base", "br", "col", "embed", "hr", "img", "input", "link", "meta",
    "param", "source", "track", "wbr">>

isSelfClosingTag(tagName) == Includes(selfClosingTags, ToLowerCase(tagName))

\* (\w+) at i: the index after the run of word lexemes that starts at i
WordRunEnd(s, i) ==
  CHOOSE j \in i..(Len(s) + 1) :
    /\ \A k \in i..(j - 1) : IsWord(s[k])
    /\ (j = Len(s) + 1 \/ ~IsWord(s[j]))

\* /<(\w+)[^>]*>/g at i
AnyTagEnd(s, i) ==
  IF Is(s, i, LT) /\ i + 1 <= Len(s) /\ IsWord(s[i + 1])
  THEN LET g == FirstAt(s, i + 2, GT) IN IF g = 0 THEN 0 ELSE g + 1
  ELSE 0

\* /<\/(\w+)>/g at i
ClosingTagEnd(s, i) ==
  IF Is(s, i, LT) /\ Is(s, i + 1, SL) /\ i + 2 <= Len(s) /\ IsWord(s[i + 2])
       /\ Is(s, WordRunEnd(s, i + 2), GT)
  THEN WordRunEnd(s, i + 2) + 1
  ELSE 0

\* while ((match = regex.exec(html)) !== null): match[1].toLowerCase() of the
\* successive matches; the capture starts skip lexemes after the match start
RECURSIVE Captures(_, _, _, _)
Captures(s, M(_, _), skip, i) ==
  IF i > Len(s) THEN <<>>
  ELSE IF M(s, i) # 0
       THEN <<Join(SubSeq(s, i + skip, WordRunEnd(s, i + skip) - 1))>>
              \o Captures(s, M, skip, M(s, i))
       ELSE Captures(s, M, skip, i + 1)

\* openTags.push(tagName) unless the tag is self-closing
RECURSIVE NotSelfClosing(_)
NotSelfClosing(tags) ==
  IF tags = <<>> THEN <<>>
  ELSE (IF isSelfClosingTag(Head(tags)) THEN <<>> ELSE <<Head(tags)>>)
         \o NotSelfClosing(Tail(tags))

\* for (const tag of closeTags): the stack and the errors after the loop
RECURSIVE PopAll(_, _, _)
PopAll(closeTags, stack, errors) ==
  IF closeTags = <<>> THEN [stack |-> stack, errors |-> errors]
  ELSE LET tag == Head(closeTags) IN
       IF stack = <<>>
       THEN PopAll(Tail(closeTags), stack,
                   Append(errors, [error |-> "closing without opening", found |-> tag]))
       ELSE LET lastTag == stack[Len(stack)]
                rest == SubSeq(stack, 1, Len(stack) - 1)
            IN  PopAll(Tail(closeTags), rest,
                       IF lastTag # tag
                       THEN Append(errors, [error |-> "mismatched", expected |-> lastTag,
                                            found |-> tag])
                       ELSE errors)

validateHTMLStructure(k, h) ==
  LET text == Subject(k, h)
      openTags == NotSelfClosing(Captures(text, AnyTagEnd, 1, 1))
      closeTags == Captures(text, ClosingTagEnd, 2, 1)
      after == PopAll(closeTags, NotSelfClosing(openTags), <<>>)
  IN  [returned |-> TRUE,
       isValid |-> after.errors = <<>>,
       errors |-> after.errors,
       warnings |-> IF after.stack # <<>> THEN <<[unclosed |-> after.stack]>> ELSE <<>>]

-----------------------------------------------------------------------------
(* The state machine: one engine, one argument, and the calls made on it *)

MaxLen == 6
MaxAttrLen == 5
MaxUrlLen == 4
MaxList == 2

\* all strings over the alphabet A of at most n lexemes
Strings(A, n) == UNION {[1..k -> A] : k \in 0..n}

\* nothing was returned, written or thrown yet
NothingYet ==
  /\ result = <<>>
  /\ answer = FALSE
  /\ raised = FALSE
  /\ metadata = [returned |-> FALSE]
  /\ validation = [returned |-> FALSE]
  /\ content = <<>>
  /\ lastWrite = [by |-> "none"]
  /\ calls = 0
  /\ op = "new"

InitWith(configs, inputs, names) ==
  /\ given \in configs
  /\ config = Sanitizer(given)
  /\ html \in inputs
  /\ kind = "string"
  /\ name \in names
  /\ innerHTML = <<>>
  /\ NothingYet

\* a policy whose blocked lists are exactly the fixed lists of removeUnsafe
FloorConfig ==
  [disallowedElements |-> unsafeElements, disallowedAttributes |-> unsafeAttributes]

(* Markup: every string of tag punctuation and the name script *)
ElemAlphabet == {LT, GT, SL, "script"}

ElemConfigs ==
  {DEFAULT_SANITIZER_CONFIG,
   FloorConfig,
   [removeElements |-> <<"SCRIPT">>, stripComments |-> FALSE]}

Init == InitWith(ElemConfigs, Strings(ElemAlphabet, MaxLen), {"script"})

(* Attributes: every opening tag <b ...> with attribute text inside *)
AttrAlphabet == {SP, SL, EQ, DQ, SQ, "onclick"}

AttrConfigs ==
  {DEFAULT_SANITIZER_CONFIG,
   [disallowedAttributes |-> <<"ONCLICK">>]}

AttrInputs == {<<LT, "b">> \o body \o <<GT>> : body \in Strings(AttrAlphabet, MaxAttrLen)}

InitAttr == InitWith(AttrConfigs, AttrInputs, {"onclick"})

(* URLs: every opening tag <a href=Q...Q> with one quoted value *)
UrlAlphabet == {"javascript", "data", "http", COLON, SL, LT, "script"}

UrlConfigs ==
  {DEFAULT_SANITIZER_CONFIG,
   [allowDataUrls |-> TRUE],
   [allowDataUrls |-> TRUE, allowedProtocols |-> <<"data:", "https:">>],
   [allowedProtocols |-> <<"javascript:", "data:">>]}

UrlValues == Strings(UrlAlphabet, MaxUrlLen) \ {<<>>}

UrlInputs ==
  {<<LT, "a", SP, "href", EQ, q>> \o v \o <<q, GT>> : q \in {SQ, DQ}, v \in UrlValues}

InitUrl == InitWith(UrlConfigs, UrlInputs, {"href"})

(* Queries: every policy whose four lists hold at most MaxList names *)
QueryNames == {"div", "DIV"}

QueryLists == Strings(QueryNames, MaxList)

QueryConfigs ==
  {[allowedElements |-> ae, disallowedElements |-> de,
    allowedAttributes |-> aa, disallowedAttributes |-> da] :
     ae \in QueryLists, de \in QueryLists, aa \in QueryLists, da \in QueryLists}

InitQuery == InitWith(QueryConfigs, {<<LT, "div", GT>>}, QueryNames)

(* Construction: every configuration that sets some of the four element *)
(* lists, each to a list of at most MaxList names                          *)
ElementFields == {"elements", "removeElements", "allowedElements", "disallowedElements"}

BuildNames == {"div", "em"}

BuildConfigs ==
  UNION {[fields -> Strings(BuildNames, MaxList)] : fields \in SUBSET ElementFields}

InitBuild == InitWith(BuildConfigs, {<<LT, "div", GT, LT, "em", GT>>}, BuildNames)

\* what a call leaves alone: the engine, its arguments and the call count
call == <<config, given, html, kind, name, calls>>

\* the sinks and what the NodeHTMLProcessor methods returned
node == <<metadata, validation, content, innerHTML, lastWrite>>

\* mutant: sanitize without the test of its argument returns String(html)
Sanitize_NoTypeTest ==
  /\ op = "new"
  /\ result' = IF kind = "string" THEN sanitize(html, config) ELSE JSToString(kind)
  /\ op' = "sanitize"
  /\ UNCHANGED <<call, node, answer, raised>>

\* sanitize(html): typeof html !== "string" returns "" (sanitizer.ts:196)
Sanitize ==
  /\ op = "new"
  /\ result' = IF kind = "string" THEN sanitize(html, config) ELSE <<>>
  /\ op' = "sanitize"
  /\ UNCHANGED <<call, node, answer, raised>>

\* removeUnsafe(html): no test of the argument; sanitized.replace(...) is a
\* TypeError on null, undefined and on every value that has no replace method
RemoveUnsafe ==
  /\ op = "new"
  /\ IF kind = "string"
     THEN result' = removeUnsafe(html) /\ UNCHANGED raised
     ELSE raised' = TRUE /\ UNCHANGED result
  /\ op' = "removeUnsafe"
  /\ UNCHANGED <<call, node, answer>>

IsElementAllowed ==
  /\ op = "new"
  /\ answer' = isElementAllowed(name, config)
  /\ op' = "isElementAllowed"
  /\ UNCHANGED <<call, node, result, raised>>

IsAttributeAllowed ==
  /\ op = "new"
  /\ answer' = isAttributeAllowed(name, config)
  /\ op' = "isAttributeAllowed"
  /\ UNCHANGED <<call, node, result, raised>>

Next == Sanitize \/ RemoveUnsafe \/ IsElementAllowed \/ IsAttributeAllowed

\* mutant: left out or "default" selects a new default engine everywhere
SelectSanitizer_AlwaysDefault(options, own) ==
  IF options.sanitizer.is \in {"omitted", "default"} THEN DefaultSanitizer
  ELSE IF options.sanitizer.is = "Sanitizer" THEN options.sanitizer.config
  ELSE Sanitizer(options.sanitizer.config)

\* options?.sanitizer: left out, "default", a Sanitizer, or a configuration
\* record.  own is the engine used when none is given.
SelectSanitizer(options, own) ==
  IF options.sanitizer.is \in {"omitted", "default"} THEN own
  ELSE IF options.sanitizer.is = "Sanitizer" THEN options.sanitizer.config
  ELSE Sanitizer(options.sanitizer.config)

\* mutant: setHTML routes through sanitize under the selected engine
SetHTMLOn_Sanitize(element, options) ==
  /\ op = "new"
  /\ IF ~element \/ kind # "string"
     THEN UNCHANGED innerHTML
     ELSE innerHTML' = sanitize(html, SelectSanitizer(options, DefaultSanitizer))
  /\ op' = "setHTML"
  /\ UNCHANGED <<call, metadata, validation, content, lastWrite, result, answer, raised>>

\* setHTML(element, input, options), the free function; element is FALSE when
\* no element is passed
SetHTMLOn(element, options) ==
  /\ op = "new"
  /\ IF ~element \/ kind # "string"
     THEN UNCHANGED innerHTML
     ELSE LET sanitizer == SelectSanitizer(options, DefaultSanitizer)
          IN  innerHTML' = removeUnsafe(html)
  /\ op' = "setHTML"
  /\ UNCHANGED <<call, metadata, validation, content, lastWrite, result, answer, raised>>

\* setHTMLUnsafe(element, input, options), the free function
SetHTMLUnsafeOn(element, options) ==
  /\ op = "new"
  /\ IF ~element \/ kind # "string"
     THEN UNCHANGED innerHTML
     ELSE LET sanitizer == SelectSanitizer(options, DefaultSanitizer)
          IN  innerHTML' = sanitize(html, sanitizer)
  /\ op' = "setHTMLUnsafe"
  /\ UNCHANGED <<call, metadata, validation, content, lastWrite, result, answer, raised>>

\* mutant: setHTML on the shadow root empties the slot on a non-string input
ShadowSetHTMLWith_NoTypeTest(options) ==
  /\ op = "new"
  /\ content' = IF kind = "string" THEN removeUnsafe(html) ELSE <<>>
  /\ lastWrite' = IF kind = "string" THEN [by |-> "setHTML", input |-> html] ELSE lastWrite
  /\ op' = "shadow.setHTML"
  /\ UNCHANGED <<call, metadata, validation, innerHTML, result, answer, raised>>

\* ShadowRootProcessor.setHTML(input, options)
ShadowSetHTMLWith(options) ==
  /\ op = "new"
  /\ IF kind # "string"
     THEN UNCHANGED <<content, lastWrite>>
     ELSE LET sanitizer == SelectSanitizer(options, config)
          IN  /\ content' = removeUnsafe(html)
              /\ lastWrite' = [by |-> "setHTML", input |-> html]
  /\ op' = "shadow.setHTML"
  /\ UNCHANGED <<call, metadata, validation, innerHTML, result, answer, raised>>

\* ShadowRootProcessor.setHTMLUnsafe(input, options)
ShadowSetHTMLUnsafeWith(options) ==
  /\ op = "new"
  /\ IF kind # "string"
     THEN UNCHANGED <<content, lastWrite>>
     ELSE LET sanitizer == SelectSanitizer(options, config)
          IN  /\ content' = sanitize(html, sanitizer)
              /\ lastWrite' = [by |-> "setHTMLUnsafe", input |-> html, engine |-> sanitizer]
  /\ op' = "shadow.setHTMLUnsafe"
  /\ UNCHANGED <<call, metadata, validation, innerHTML, result, answer, raised>>

\* mutant: clear() leaves the slot as it is
Clear_KeepsContent ==
  /\ op = "new"
  /\ lastWrite' = [by |-> "clear"]
  /\ op' = "shadow.clear"
  /\ UNCHANGED <<call, metadata, validation, content, innerHTML, result, answer, raised>>

\* mutant: processHTMLWithMetadata empties the engine's blocked-element list
ProcessHTMLWithMetadata_Mutates ==
  /\ op = "new"
  /\ metadata' = processHTMLWithMetadata(kind, html, config)
  /\ config' = Assign(config, "disallowedElements", <<>>)
  /\ op' = "processHTMLWithMetadata"
  /\ UNCHANGED <<given, html, kind, name, calls, validation, content, innerHTML,
                 lastWrite, result, answer, raised>>

\* ShadowRootProcessor.getHTML()
GetHTML ==
  /\ op = "new"
  /\ result' = content
  /\ op' = "shadow.getHTML"
  /\ UNCHANGED <<call, node, answer, raised>>

\* ShadowRootProcessor.clear()
Clear ==
  /\ op = "new"
  /\ content' = <<>>
  /\ lastWrite' = [by |-> "clear"]
  /\ op' = "shadow.clear"
  /\ UNCHANGED <<call, metadata, validation, innerHTML, result, answer, raised>>

ProcessHTMLWithMetadata ==
  /\ op = "new"
  /\ metadata' = processHTMLWithMetadata(kind, html, config)
  /\ op' = "processHTMLWithMetadata"
  /\ UNCHANGED <<call, validation, content, innerHTML, lastWrite, result, answer, raised>>

ValidateHTMLStructure ==
  /\ op = "new"
  /\ validation' = validateHTMLStructure(kind, html)
  /\ op' = "validateHTMLStructure"
  /\ UNCHANGED <<call, metadata, content, innerHTML, lastWrite, result, answer, raised>>

(* The values options.sanitizer takes *)
OptionConfigs == {DEFAULT_SANITIZER_CONFIG, [disallowedElements |-> <<>>]}

OptionSet ==
  {[sanitizer |-> [is |-> "omitted"]], [sanitizer |-> [is |-> "default"]]}
    \cup {[sanitizer |-> [is |-> "Sanitizer", config |-> Sanitizer(c)]] : c \in OptionConfigs}
    \cup {[sanitizer |-> [is |-> "config", config |-> c]] : c \in OptionConfigs}

SetHTML == \E element \in BOOLEAN, options \in OptionSet : SetHTMLOn(element, options)

SetHTMLUnsafe ==
  \E element \in BOOLEAN, options \in OptionSet : SetHTMLUnsafeOn(element, options)

ShadowSetHTML == \E options \in OptionSet : ShadowSetHTMLWith(options)

ShadowSetHTMLUnsafe == \E options \in OptionSet : ShadowSetHTMLUnsafeWith(options)

\* one call on an engine, a NodeHTMLProcessor, a ShadowRootProcessor or an element
NextNode ==
  \/ Sanitize \/ RemoveUnsafe \/ IsElementAllowed \/ IsAttributeAllowed
  \/ ProcessHTMLWithMetadata \/ ValidateHTMLStructure
  \/ SetHTML \/ SetHTMLUnsafe
  \/ ShadowSetHTML \/ ShadowSetHTMLUnsafe \/ GetHTML \/ Clear

(* Metadata: markup over the name script, and opening tags <b ...> with *)
(* attribute text inside, under the default policy and an upper-case one *)
MaxMetaLen == 5
MaxMetaAttrLen == 4

MetaConfigs ==
  {DEFAULT_SANITIZER_CONFIG,
   [removeElements |-> <<"SCRIPT">>, disallowedAttributes |-> <<"ONCLICK">>]}

MetaInputs ==
  Strings(ElemAlphabet, MaxMetaLen)
    \cup {<<LT, "b">> \o body \o <<GT>> : body \in Strings(AttrAlphabet, MaxMetaAttrLen)}

InitMeta == InitWith(MetaConfigs, MetaInputs, {"script"})

(* Structure: every sequence of at most MaxTags tags *)
MaxTags == 4

Tags ==
  {<<LT, "p", GT>>, <<LT, SL, "p", GT>>, <<LT, "div", GT>>, <<LT, SL, "div", GT>>,
   <<LT, "br", GT>>}

RECURSIVE TagSequences(_)
TagSequences(n) ==
  IF n = 0 THEN {<<>>}
  ELSE LET shorter == TagSequences(n - 1)
       IN  shorter \cup {s \o tag : s \in shorter, tag \in Tags}

InitValidate == InitWith({DEFAULT_SANITIZER_CONFIG}, TagSequences(MaxTags), {"p"})

(* Sessions: several calls, one after the other, on the same objects *)
MaxCalls == 2

\* typeof of the values passed where a string is expected
Kinds == {"string", "null", "undefined", "number", "object"}

SessionStrings == {<<>>, <<"text">>, <<LT, "script", GT>>, <<LT, "form", GT>>}

\* a value: its typeof and, for a string, its characters
SessionArguments ==
  {[kind |-> "string", html |-> h] : h \in SessionStrings}
    \cup {[kind |-> k, html |-> <<>>] : k \in Kinds \ {"string"}}

SessionConfigs == {DEFAULT_SANITIZER_CONFIG, [removeElements |-> <<>>]}

SessionNames == {"form"}

InitSession ==
  /\ given \in SessionConfigs
  /\ config = Sanitizer(given)
  /\ \E a \in SessionArguments : html = a.html /\ kind = a.kind
  /\ name \in SessionNames
  /\ innerHTML = <<"text">>
  /\ NothingYet

\* the caller makes the next call, with a new argument
Again ==
  /\ op # "new"
  /\ calls < MaxCalls
  /\ \E a \in SessionArguments : html' = a.html /\ kind' = a.kind
  /\ name' \in SessionNames
  /\ calls' = calls + 1
  /\ raised' = FALSE
  /\ op' = "new"
  /\ UNCHANGED <<config, given, result, answer, node>>

NextSession == NextNode \/ Again

(* Unsafe URLs: every opening tag <a href=Q scheme : v Q> whose quoted value
   begins with javascript: or data: and may hold quote characters *)
MaxUnsafeUrlLen == 3

UnsafeUrlValues == Strings({SQ, DQ, "x", "alert"}, MaxUnsafeUrlLen)

UnsafeUrlInputs ==
  {<<LT, "a", SP, attr, EQ, q, scheme, COLON>> \o v \o <<q, GT>> :
     attr \in {"href", "SRC"}, q \in {SQ, DQ},
     scheme \in {"javascript", "JAVASCRIPT", "data"}, v \in UnsafeUrlValues}

InitUnsafeUrl == InitWith({DEFAULT_SANITIZER_CONFIG}, UnsafeUrlInputs, {"href"})

(* Comments: every string of at most MaxChunks pieces of comment delimiters *)
MaxChunks == 5

CommentChunks ==
  {<<LT, BANG, DASH>>, <<LT, BANG, DASH, DASH>>, <<DASH, DASH, GT>>, <<DASH>>, <<"x">>}

RECURSIVE CommentStrings(_)
CommentStrings(n) ==
  IF n = 0 THEN {<<>>}
  ELSE LET shorter == CommentStrings(n - 1)
       IN  shorter \cup {s \o c : s \in shorter, c \in CommentChunks}

CommentConfigs == {DEFAULT_SANITIZER_CONFIG, [stripComments |-> FALSE]}

InitComment == InitWith(CommentConfigs, CommentStrings(MaxChunks), {"script"})

(* Whitelists: opening tags <b ...> with the attribute title inside,
   under policies that differ in allowedElements and allowedAttributes only *)
MaxListedLen == 5

WhiteLists == {<<>>, <<"b", "title">>}

WhitelistConfigs ==
  {[allowedElements |-> ae, allowedAttributes |-> aa] : ae \in WhiteLists, aa \in WhiteLists}

WhitelistInputs ==
  {<<LT, "b">> \o body \o <<GT>> : body \in Strings({SP, EQ, DQ, "title"}, MaxListedLen)}
    \cup {<<LT, "b", GT, "x", LT, SL, "b", GT>>,
          <<LT, "b", SP, "onclick", EQ, DQ, "x", DQ, SP, "title", EQ, DQ, "x", DQ, GT>>}

InitWhitelist == InitWith(WhitelistConfigs, WhitelistInputs, {"b"})

(* Replacement: every sequence of at most MaxPieces script tags, div tags and
   words, under configurations that give a blocked-element list without script *)
MaxPieces == 4

ReplacePieces ==
  {<<LT, "script", GT>>, <<LT, SL, "script", GT>>, <<LT, "div", GT>>, <<LT, SL, "div", GT>>,
   <<"x">>}

RECURSIVE ReplaceStrings(_)
ReplaceStrings(n) ==
  IF n = 0 THEN {<<>>}
  ELSE LET shorter == ReplaceStrings(n - 1)
       IN  shorter \cup {s \o c : s \in shorter, c \in ReplacePieces}

ReplaceConfigs ==
  {[disallowedElements |-> <<"div">>], [removeElements |-> <<"DIV">>],
   [disallowedElements |-> <<>>], [removeElements |-> <<>>]}

InitReplace == InitWith(ReplaceConfigs, ReplaceStrings(MaxPieces), {"script"})

Spec == Init /\ [][Next]_vars

SpecAttr == InitAttr /\ [][Next]_vars

SpecUrl == InitUrl /\ [][Next]_vars

SpecQuery == InitQuery /\ [][Next]_vars

SpecBuild == InitBuild /\ [][Next]_vars

SpecMeta == InitMeta /\ [][NextNode]_vars

SpecValidate == InitValidate /\ [][NextNode]_vars

SpecSession == InitSession /\ [][NextSession]_vars

SpecUnsafeUrl == InitUnsafeUrl /\ [][Next]_vars

SpecComment == InitComment /\ [][Next]_vars

SpecWhitelist == InitWhitelist /\ [][Next]_vars

SpecReplace == InitReplace /\ [][Next]_vars

-----------------------------------------------------------------------------
(* What the claims speak of *)

\* s holds, at i, an opening tag of the element: "<", the name in any letter
\* case, not followed by a word character, and a ">" further on
OpeningTagAt(s, i, tag) ==
  /\ Is(s, i, LT)
  /\ i + 1 <= Len(s) /\ ToLowerCase(s[i + 1]) = ToLowerCase(tag)
  /\ (i + 2 > Len(s) \/ IsWord(s[i + 2]) = FALSE)
  /\ \E g \in (i + 2)..Len(s) : s[g] = GT

HasOpeningTag(s, tag) == \E i \in 1..Len(s) : OpeningTagAt(s, i, tag)

\* s holds, at i, the attribute name followed by = and a quoted value
QuotedValueAt(s, i, attr) ==
  /\ ToLowerCase(s[i]) = ToLowerCase(attr)
  /\ LET e == SkipSpaces(s, i + 1) IN
       /\ Is(s, e, EQ)
       /\ LET o == SkipSpaces(s, e + 1) IN
            \E q \in {SQ, DQ} : Is(s, o, q) /\ \E z \in (o + 1)..Len(s) : s[z] = q

\* position i of s lies inside an opening tag, where an attribute name starts:
\* after "<name" and a space or a slash, with no ">" in between
AttributeStartsAt(s, i) ==
  /\ i > 1 /\ s[i - 1] \in {SP, SL}
  /\ \E j \in 1..(i - 2) :
       /\ s[j] = LT /\ IsWord(s[j + 1]) /\ s[j + 2] \in {SP, SL}
       /\ \A k \in j..i : s[k] # GT

\* an element of s carries the attribute with a quoted value
HasQuotedAttribute(s, attr) ==
  \E i \in 1..Len(s) : AttributeStartsAt(s, i) /\ QuotedValueAt(s, i, attr)

\* C1: whatever the input and the policy, the string removeUnsafe returns holds
\* no opening tag of script, style, iframe, object or embed and no quoted
\* occurrence of one of the eleven event-handler attributes.
C1_RemoveUnsafeFloor ==
  op = "removeUnsafe" =>
    /\ \A tag \in Range(unsafeElements) : ~HasOpeningTag(result, tag)
    /\ \A attr \in Range(unsafeAttributes) : ~HasQuotedAttribute(result, attr)

\* C2: the output of sanitize holds no opening tag of a name of the policy's
\* blocked-element list.
C2_BlockedElementsRemoved ==
  op = "sanitize" =>
    \A tag \in Range(config.disallowedElements) : ~HasOpeningTag(result, tag)

\* C3: the output of sanitize holds no quoted occurrence, on any element, of an
\* attribute of the policy's blocked-attribute list.
C3_BlockedAttributesRemoved ==
  op = "sanitize" =>
    \A attr \in Range(config.disallowedAttributes) : ~HasQuotedAttribute(result, attr)

\* C4: sanitize is idempotent: sanitizing the output of sanitize again, under
\* the same policy, gives the same string.
C4_SanitizeIdempotent ==
  op = "sanitize" => sanitize(result, config) = result

\* C5: removeUnsafe is idempotent: removeUnsafe of its own output is that output.
C5_RemoveUnsafeIdempotent ==
  op = "removeUnsafe" => removeUnsafe(result) = result

\* the policy's blocked lists hold the fixed lists of removeUnsafe
CoversFloor(c) ==
  /\ Range(unsafeElements) \subseteq Range(c.disallowedElements)
  /\ Range(unsafeAttributes) \subseteq Range(c.disallowedAttributes)

\* C6: under a policy whose blocked lists hold the fixed unsafe sets,
\* removeUnsafe changes nothing in the output of sanitize.
C6_SanitizeMeetsFloor ==
  (op = "sanitize" /\ CoversFloor(config)) => removeUnsafe(result) = result

\* C7: the blocked lists of a Sanitizer built with no configuration hold the
\* five elements and the eleven event-handler attributes removeUnsafe removes.
C7_DefaultCoversFloor ==
  config = DefaultSanitizer => CoversFloor(config)

\* the quoted value that opens at the quote s[o]
QuotedValue(s, o) == SubSeq(s, o + 1, FirstAt(s, o + 1, s[o]) - 1)

\* s carries one href or src attribute with a quoted value; its position
UrlAttrIn(s) == CHOOSE i \in 1..Len(s) : IsUrlAttr(s[i])

HasOneQuotedUrl(s) ==
  /\ Cardinality({i \in 1..Len(s) : IsUrlAttr(s[i])}) = 1
  /\ QuotedUrlEnd(s, UrlAttrIn(s), SQ) # 0 \/ QuotedUrlEnd(s, UrlAttrIn(s), DQ) # 0

InputUrl(s) == QuotedValue(s, UrlAttrHead(s, UrlAttrIn(s)))

\* the value parses as an absolute URL whose scheme the policy does not allow,
\* and it is not a data: URL under allowDataUrls
Gated(url, c) ==
  LET protocol == URLProtocol(url) IN
    /\ protocol # ""
    /\ ~Includes(c.allowedProtocols, protocol)
    /\ ~(protocol = "data:" /\ c.allowDataUrls)

\* every href and src of s is followed by ="#"
HashValued(s) ==
  \A i \in 1..Len(s) :
    IsUrlAttr(s[i]) => SubSeq(s, i + 1, i + 4) = <<EQ, DQ, HASH, DQ>>

\* s holds the sequence w as a contiguous part
Contains(s, w) ==
  \E i \in 0..(Len(s) - Len(w)) : SubSeq(s, i + 1, i + Len(w)) = w

\* C8: a quoted href or src value of the input that parses as an absolute URL
\* with a scheme outside allowedProtocols (a data: URL under allowDataUrls
\* excepted) has the value # in the output of sanitize.
C8_ProtocolGating ==
  (op = "sanitize" /\ HasOneQuotedUrl(html) /\ Gated(InputUrl(html), config))
    => HashValued(result)

\* C9: under a policy with allowDataUrls = true, sanitize leaves a quoted href
\* or src value that is a valid data: URL (here: one that holds no "<")
\* untouched, whether or not "data:" is in allowedProtocols.
C9_DataUrlsExempt ==
  (/\ op = "sanitize" /\ HasOneQuotedUrl(html)
   /\ config.allowDataUrls
   /\ URLProtocol(InputUrl(html)) = "data:"
   /\ ~Contains(InputUrl(html), <<LT>>))
    => LET i == UrlAttrIn(html)
           e == IF QuotedUrlEnd(html, i, SQ) # 0 THEN QuotedUrlEnd(html, i, SQ)
                ELSE QuotedUrlEnd(html, i, DQ)
       IN  Contains(result, SubSeq(html, i, e - 1))

\* C10: a name that is in an allow-list and in the corresponding block-list is
\* not allowed: isElementAllowed(name), isAttributeAllowed(name) return false.
C10_BlocklistPrecedence ==
  /\ (op = "isElementAllowed" /\ Includes(config.allowedElements, name)
        /\ Includes(config.disallowedElements, name)) => answer = FALSE
  /\ (op = "isAttributeAllowed" /\ Includes(config.allowedAttributes, name)
        /\ Includes(config.disallowedAttributes, name)) => answer = FALSE

\* C11: for an engine built from a configuration that sets elements = E and/or
\* removeElements = R and neither legacy element list, the allowed-element
\* list of the engine is E and its blocked-element list is R.
C11_MdnFieldsPopulate ==
  (~Has(given, "allowedElements") /\ ~Has(given, "disallowedElements"))
    => /\ Has(given, "elements") => config.allowedElements = given.elements
       /\ Has(given, "removeElements") => config.disallowedElements = given.removeElements

\* both removeElements and disallowedElements are given and they differ
BothBlockedLists ==
  /\ Has(given, "removeElements") /\ Has(given, "disallowedElements")
  /\ given.removeElements # given.disallowedElements

C13_EmptyInputFailsClosed ==
  (op = "sanitize" /\ (kind # "string" \/ html = <<>>)) => result = <<>>

\* sanitize(null) was called, as a later call of a session
C13_Witness ==
  op = "sanitize" /\ kind = "null" /\ result = <<>> /\ calls >= 1

\* C14: no operation throws, whatever the argument: after every call (sanitize,
\* removeUnsafe, setHTML, setHTMLUnsafe, processHTMLWithMetadata,
\* validateHTMLStructure) nothing was raised.
C14_NothingRaises == raised = FALSE

\* the calls of the setHTML family
SetHTMLFamily == {"setHTML", "setHTMLUnsafe", "shadow.setHTML", "shadow.setHTMLUnsafe"}

\* C15: a call of the setHTML family whose input is not a string, or (free
\* functions) whose element is absent, leaves element.innerHTML and the
\* shadow content as they were.
C15_NonStringIsNoOp ==
  [][/\ (kind # "string" /\ op' \in SetHTMLFamily)
          => (innerHTML' = innerHTML /\ content' = content)
     /\ \A options \in OptionSet :
          (SetHTMLOn(FALSE, options) \/ SetHTMLUnsafeOn(FALSE, options))
            => (innerHTML' = innerHTML /\ content' = content)]_vars

\* setHTML(null) was called on a shadow root that held content, and still does
C15_Witness ==
  /\ op = "shadow.setHTML" /\ kind = "null"
  /\ lastWrite.by = "setHTMLUnsafe" /\ content = <<LT, "script", GT>>

\* C16: for a string html, what setHTML writes (free function and shadow root)
\* is removeUnsafe(html), whichever options.sanitizer is given.
C16_SetHTMLPolicyIndependent ==
  [][(kind = "string" /\ op' \in {"setHTML", "shadow.setHTML"}) =>
       \A options \in OptionSet :
         /\ SetHTMLOn(TRUE, options) => innerHTML' = removeUnsafe(html)
         /\ ShadowSetHTMLWith(options) => content' = removeUnsafe(html)]_vars

\* setHTML wrote <form>, which sanitize under the default policy removes
C16_Witness ==
  op = "setHTML" /\ html = <<LT, "form", GT>> /\ innerHTML = <<LT, "form", GT>>

\* what the slot holds after the write w
Expected(w) ==
  CASE w.by = "setHTML" -> removeUnsafe(w.input)
    [] w.by = "setHTMLUnsafe" -> sanitize(w.input, w.engine)
    [] OTHER -> <<>>

\* C17: the shadow content is '' initially and after clear(), removeUnsafe(x)
\* after the last effective write setHTML(x), sanitize(x) under the selected
\* engine after the last effective write setHTMLUnsafe(x); getHTML returns the
\* slot and does not change it.
C17_LastWriteWins ==
  /\ [](content = Expected(lastWrite))
  /\ [](op = "shadow.getHTML" => result = content)
  /\ [][GetHTML => content' = content]_vars

\* third call of a session: getHTML returns what the second write left
C17_Witness ==
  /\ op = "shadow.getHTML" /\ calls = 2
  /\ lastWrite.by = "setHTMLUnsafe" /\ result = <<LT, "script", GT>>

\* C18: whatever calls were made before, the engine's policy is the one
\* construction produced, and sanitize(html), removeUnsafe(html) return what a
\* new engine built from the same configuration returns.
C18_HistoryIndependent ==
  /\ [][config' = config]_vars
  /\ [](config = Sanitizer(given))
  /\ []((op = "sanitize" /\ kind = "string") => result = sanitize(html, Sanitizer(given)))
  /\ []((op = "removeUnsafe" /\ kind = "string") => result = removeUnsafe(html))

\* third call of a session: sanitize keeps <script> under removeElements = []
C18_Witness ==
  /\ op = "sanitize" /\ calls = 2 /\ metadata.returned /\ validation.returned
  /\ result = <<LT, "script", GT>>

\* the pattern processHTMLWithMetadata looks for occurs somewhere in s
TagPatternIn(s, tag) == \E i \in 1..Len(s) : TagPatternEnd(s, i, tag) # 0

AttrPatternIn(s, attr) == \E i \in 1..Len(s) : AttrPatternEnd(s, i, attr) # 0

\* C19: processHTMLWithMetadata reports a name in removedElements
\* (removedAttributes) if and only if the name is in the policy's blocked list,
\* its tag (quoted attribute) pattern occurs in the original html and the
\* pattern occurs nowhere in the sanitized output.
C19_MetadataExact ==
  (op = "processHTMLWithMetadata" /\ kind = "string") =>
    /\ \A tag \in Range(config.disallowedElements) \cup Range(metadata.removedElements) :
         Includes(metadata.removedElements, tag)
           <=> /\ Includes(config.disallowedElements, tag)
               /\ TagPatternIn(html, tag)
               /\ ~TagPatternIn(metadata.sanitizedHTML, tag)
    /\ \A attr \in Range(config.disallowedAttributes) \cup Range(metadata.removedAttributes) :
         Includes(metadata.removedAttributes, attr)
           <=> /\ Includes(config.disallowedAttributes, attr)
               /\ AttrPatternIn(html, attr)
               /\ ~AttrPatternIn(metadata.sanitizedHTML, attr)

\* the tags of s read in document order against one stack of open tags: TRUE
\* when every closing tag matches the innermost open tag; stack is what is
\* still open at i
RECURSIVE NestedFrom(_, _, _)
NestedFrom(s, i, stack) ==
  IF i > Len(s) THEN [errors |-> FALSE, stack |-> stack]
  ELSE IF ClosingTagEnd(s, i) # 0
       THEN LET tag == Join(SubSeq(s, i + 2, WordRunEnd(s, i + 2) - 1)) IN
            IF stack # <<>> /\ stack[Len(stack)] = tag
            THEN NestedFrom(s, ClosingTagEnd(s, i), SubSeq(stack, 1, Len(stack) - 1))
            ELSE [errors |-> TRUE, stack |-> stack]
  ELSE IF AnyTagEnd(s, i) # 0
       THEN LET tag == Join(SubSeq(s, i + 1, WordRunEnd(s, i + 1) - 1)) IN
            NestedFrom(s, AnyTagEnd(s, i),
                       IF isSelfClosingTag(tag) THEN stack ELSE Append(stack, tag))
  ELSE NestedFrom(s, i + 1, stack)

\* C20: validateHTMLStructure answers as a document-order stack of open tags
\* does: it reports errors exactly when some closing tag has no open tag or
\* does not match the innermost open tag, and a balanced, properly nested
\* fragment gets isValid with no errors and no warnings.
C20_DocumentOrderStack ==
  (op = "validateHTMLStructure" /\ kind = "string") =>
    LET nested == NestedFrom(html, 1, <<>>) IN
      /\ validation.isValid = ~nested.errors
      /\ (validation.errors = <<>>) = ~nested.errors
      /\ (~nested.errors /\ nested.stack = <<>>) => validation.warnings = <<>>

\* the value begins with javascript: or data:, in any letter case
Dangerous(url) ==
  /\ Len(url) >= 2
  /\ ToLowerCase(url[1]) \in {"javascript", "data"}
  /\ url[2] = COLON

\* s with its one quoted href or src attribute, from the name to the closing
\* quote, replaced by name="#"
WithHashAttr(s) ==
  LET i == UrlAttrIn(s)
      o == UrlAttrHead(s, i)
      z == FirstAt(s, o + 1, s[o])
  IN  SubSeq(s, 1, i - 1) \o <<s[i], EQ, DQ, HASH, DQ>> \o SubSeq(s, z + 1, Len(s))

\* C21: for a quoted href or src attribute whose value begins with javascript:
\* or data: (any letter case), removeUnsafe puts name="#" in place of the whole
\* attribute and leaves no part of the value behind, also when the value holds
\* a quote character of the other kind.
C21_WholeAttributeReplaced ==
  (op = "removeUnsafe" /\ kind = "string"
   /\ HasOneQuotedUrl(html) /\ Dangerous(InputUrl(html)))
    => result = WithHashAttr(html)

HasComment(s) == \E i \in 1..Len(s) : CommentEnd(s, i) # 0

\* the elements, attributes and comments of s hold those of t
KeepsAllOf(s, t) ==
  /\ \A tag \in Range(DEFAULT_SANITIZER_CONFIG.disallowedElements)
                  \cup Range(DEFAULT_SANITIZER_CONFIG.allowedElements) :
       HasOpeningTag(t, tag) => HasOpeningTag(s, tag)
  /\ \A attr \in Range(DEFAULT_SANITIZER_CONFIG.disallowedAttributes)
                   \cup Range(DEFAULT_SANITIZER_CONFIG.allowedAttributes) :
       HasQuotedAttribute(t, attr) => HasQuotedAttribute(s, attr)
  /\ HasComment(t) => HasComment(s)

\* C22: with the default sanitizer, every element, attribute and comment that
\* setHTML leaves in the sink for a string html is also left in the sink by
\* setHTMLUnsafe: the permissive mode removes nothing that the safe mode keeps.
C22_UnsafeKeepsWhatSafeKeeps ==
  [][(kind = "string" /\ op' = "setHTMLUnsafe") =>
       \A options \in {[sanitizer |-> [is |-> "omitted"]], [sanitizer |-> [is |-> "default"]]} :
         SetHTMLUnsafeOn(TRUE, options) => KeepsAllOf(innerHTML', removeUnsafe(html))]_vars

\* C23: under a policy with stripComments = true, the output of sanitize holds
\* no complete comment: no "<!--" followed later by "-->".
C23_NoCommentLeft ==
  (op = "sanitize" /\ kind = "string" /\ config.stripComments) => ~HasComment(result)

NoSanitizerGiven == {[sanitizer |-> [is |-> "omitted"]], [sanitizer |-> [is |-> "default"]]}

\* C25 as stated: with options.sanitizer left out or "default", setHTMLUnsafe
\* stores sanitize(html) under the default policy at every entry point, the
\* ShadowRootProcessor method included, whatever configuration the processor
\* was constructed with.
C25_DefaultPolicyEverywhere ==
  [][(kind = "string" /\ op' \in {"setHTMLUnsafe", "shadow.setHTMLUnsafe"}) =>
       \A options \in NoSanitizerGiven :
         /\ SetHTMLUnsafeOn(TRUE, options) => innerHTML' = sanitize(html, DefaultSanitizer)
         /\ ShadowSetHTMLUnsafeWith(options) => content' = sanitize(html, DefaultSanitizer)]_vars

\* C25, amended: with options.sanitizer left out or "default", the free function
\* setHTMLUnsafe stores sanitize(html) under the default policy, and the
\* ShadowRootProcessor method stores sanitize(html) under the policy of the
\* engine the processor was constructed with.
C25_DefaultOrOwnEngine ==
  [][(kind = "string" /\ op' \in {"setHTMLUnsafe", "shadow.setHTMLUnsafe"}) =>
       \A options \in NoSanitizerGiven :
         /\ SetHTMLUnsafeOn(TRUE, options) => innerHTML' = sanitize(html, DefaultSanitizer)
         /\ ShadowSetHTMLUnsafeWith(options) => content' = sanitize(html, config)]_vars

\* a processor constructed with removeElements = [] stored <script> through its
\* own engine, which the default policy removes
C25_Witness ==
  /\ op = "shadow.setHTMLUnsafe" /\ given = [removeElements |-> <<>>]
  /\ lastWrite.by = "setHTMLUnsafe" /\ lastWrite.engine = config
  /\ html = <<LT, "script", GT>> /\ content = <<LT, "script", GT>>
  /\ sanitize(html, DefaultSanitizer) = <<>>

\* the blocked-element list D a configuration gives
GivenBlockedList(cfg) ==
  IF Has(cfg, "removeElements") THEN cfg.removeElements ELSE cfg.disallowedElements

\* s holds "<" followed by one of the names, in any letter case
NamesTagOf(s, names) ==
  \E i \in 1..Len(s), d \in Range(names) : Is(s, i, LT) /\ i + 1 <= Len(s) /\ EqI(s[i + 1], d)

\* the default blocked names that the list D does not hold
NotIn(D) ==
  {tag \in Range(DEFAULT_SANITIZER_CONFIG.disallowedElements) :
     \A d \in Range(D) : ~EqI(d, tag)}

HasEmptyElement(s) == \E i \in 1..Len(s) : EmptyTagEnd(s, i, 0) # 0

C27_MetadataConsistent ==
  (op = "processHTMLWithMetadata" /\ kind = "string" /\ ~metadata.wasModified) =>
    /\ metadata.sanitizedHTML = html
    /\ metadata.removedElements = <<>>
    /\ metadata.removedAttributes = <<>>

====
